---- MODULE Spec2Model ----
(***************************************************************************)
(* Model of the IS31FL3733 "simple" LED-matrix driver                      *)
(* (drivers/led/issi/is31fl3733-simple.c): the shadow buffers, their dirty *)
(* flags, the mutation API and the two flush operations, together with the *)
(* I2C transmissions they issue and a register-level model of the chips.   *)
(***************************************************************************)
EXTENDS Integers, Sequences, FiniteSets, TLC

(* ---------------------------- program constants ------------------------ *)

IS31FL3733_COMMANDREGISTER == 253
IS31FL3733_COMMANDREGISTER_WRITELOCK == 254
IS31FL3733_PAGE_LEDCONTROL == 0
IS31FL3733_PAGE_PWM == 1
IS31FL3733_PAGE_FUNCTION == 3
\* registers of the function page
IS31FL3733_REG_CONFIGURATION == 0
IS31FL3733_REG_GLOBALCURRENT == 1
IS31FL3733_REG_SWPULLUP == 15
IS31FL3733_REG_CSPULLUP == 16
IS31FL3733_GLOBALCURRENT == 255
\* settings the board takes from the driver's header: the de-ghosting
\* resistors and the PWM frequency selector (26.7 kHz)
IS31FL3733_SWPULLUP == 0
IS31FL3733_CSPULLUP == 0
IS31FL3733_PWM_FREQUENCY == 2
IS31FL3733_DRIVER_COUNT == 2
\* the byte that unlocks the command register for one write
UNLOCK_BYTE == 197
\* g_pwm_buffer[..][192], g_led_control_registers[..][24]
PWM_REGISTER_COUNT == 192
LED_CONTROL_REGISTER_COUNT == 24
\* the PWM page goes out in transfers of 16 data bytes
PWM_CHUNK == 16

(* -------------------------------- bounds ------------------------------- *)

\* number of logical LEDs of the board (a prefix of g_is31_leds is used)
LED_MATRIX_LED_COUNT == 2
\* number of distinct brightness values callers pass to set_value
NumValues == 2

Drivers == 0 .. (IS31FL3733_DRIVER_COUNT - 1)
PwmRegs == 0 .. (PWM_REGISTER_COUNT - 1)
CtrlRegs == 0 .. (LED_CONTROL_REGISTER_COUNT - 1)
NumChunks == PWM_REGISTER_COUNT \div PWM_CHUNK

\* the uint8_t values callers request: 0, 128, 1, 129, ...
PwmValue(k) == (k * 128) % 255
Values == { PwmValue(k) : k \in 0 .. (NumValues - 1) }

\* The board's LED table: logical index -> (driver, register offset v).
\* Entry i+1 of the sequence is g_is31_leds[i].
LedTable ==
  << [driver |-> 0, v |-> 0],
     [driver |-> 1, v |-> 37],
     [driver |-> 0, v |-> 21],
     [driver |-> 1, v |-> 190],
     [driver |-> 0, v |-> 100] >>
g_is31_leds(index) == LedTable[index + 1]
LedIndices == 0 .. (LED_MATRIX_LED_COUNT - 1)
\* the I2C address the board passes together with driver index d
DriverAddr(d) == d
\* the sync roles is31fl3733_init is called with (master, slave)
SyncValues == {1, 2}

(* ------------------------------- state --------------------------------- *)

VARIABLES
  g_pwm_buffer,                            \* [driver -> [0..191 -> byte]]
  g_pwm_buffer_update_required,            \* [driver -> BOOLEAN]
  g_led_control_registers,                 \* [driver -> [0..23 -> byte]]
  g_led_control_registers_update_required, \* [driver -> BOOLEAN]
  hw,       \* the chips: contents of page 0 and page 1 of each
  bus,      \* the I2C transmissions issued by the most recent call, in order
  lastOp,   \* the most recent call: its name, arguments and how it returned
  req,      \* history: value of the latest set_value per physical location
  hist9,    \* history: whether only driver 1's control buffer was mutated
  heal,     \* history: progress of a dropped-update/repair cycle
  fault,    \* history: whether a transmission of the most recent call failed
  would,    \* history: what flushing the other drivers would have done
            \*          before the most recent flush
  chain,    \* history: progress of a run set_value(0, v), set_value(1, v), ..
  power     \* history: a driver followed from its initialisation onwards

prog == << g_pwm_buffer, g_pwm_buffer_update_required,
           g_led_control_registers, g_led_control_registers_update_required >>
vars == << g_pwm_buffer, g_pwm_buffer_update_required,
           g_led_control_registers, g_led_control_registers_update_required,
           hw, bus, lastOp, req, hist9, heal, fault,
           would, chain, power >>

Locations == { << g_is31_leds(i).driver, g_is31_leds(i).v >> : i \in LedIndices }

(* ----------------------------- the transport --------------------------- *)

\* one i2c_transmit(addr << 1, g_twi_transfer_buffer, len, timeout) call:
\* the bytes sent and whether it returned 0
Tx(addr, data, ok) == [addr |-> addr, data |-> data, ok |-> ok]

\* The contents of a chip's pages as last confirmed by the driver: hw[d]
\* holds page 0 (LED control) and page 1 (PWM).  Within one call the chip is
\* followed transmission by transmission: 0xC5 written to the write-lock
\* register unlocks the command register for one write, a write of the
\* unlocked command register selects the page, and any other register
\* address writes the data bytes to consecutive registers of the selected
\* page (auto-increment).  A transmission that failed changes nothing, and
\* data sent while the call has not selected a page is credited to no page.
NO_PAGE == -1
\* data[1] is the register address, data[j] for j >= 2 goes to register
\* reg + j - 2 when the page has such a register
RECURSIVE WriteFrom(_, _, _, _)
WriteFrom(pg, reg, data, j) ==
  IF j > Len(data) THEN pg
  ELSE WriteFrom(IF (reg + j - 2) \in DOMAIN pg
                 THEN [pg EXCEPT ![reg + j - 2] = data[j]]
                 ELSE pg,
                 reg, data, j + 1)
WritePage(pg, reg, data) == WriteFrom(pg, reg, data, 2)
HwApply(h, tx) ==
  IF ~tx.ok THEN h
  ELSE IF tx.data[1] = IS31FL3733_COMMANDREGISTER_WRITELOCK
    THEN [h EXCEPT !.unlocked = (tx.data[2] = UNLOCK_BYTE)]
  ELSE IF tx.data[1] = IS31FL3733_COMMANDREGISTER
    THEN IF h.unlocked THEN [h EXCEPT !.page = tx.data[2], !.unlocked = FALSE]
         ELSE h
  ELSE IF h.page = IS31FL3733_PAGE_LEDCONTROL
    THEN [h EXCEPT !.pg0 = WritePage(h.pg0, tx.data[1], tx.data)]
  ELSE IF h.page = IS31FL3733_PAGE_PWM
    THEN [h EXCEPT !.pg1 = WritePage(h.pg1, tx.data[1], tx.data)]
  ELSE h

\* the chip after transmissions lo .. hi of txs, applied in order: first
\* lo .. mid, then, on the chip these leave, mid+1 .. hi
RECURSIVE HwFoldRange(_, _, _, _)
HwFoldRange(h, txs, lo, hi) ==
  IF lo > hi THEN h
  ELSE IF lo = hi THEN HwApply(h, txs[lo])
  ELSE LET mid == (lo + hi) \div 2
           left == HwFoldRange(h, txs, lo, mid)
       IN IF left.unlocked \in BOOLEAN
          THEN HwFoldRange(left, txs, mid + 1, hi)
          ELSE left
HwFold(h, txs, n) == HwFoldRange(h, txs, n, Len(txs))
HwEnd(h) == [pg0 |-> h.pg0, pg1 |-> h.pg1]
HwRun(h, txs) ==
  HwEnd(HwFold([page |-> NO_PAGE, unlocked |-> FALSE,
                pg0 |-> h.pg0, pg1 |-> h.pg1], txs, 1))

\* What the transport does during one call: whether the unlock and the
\* page-select transmissions succeed, and which data transfers fail.
\* The data transfers that fail are none, one of a few sites (the first, the
\* second, the last), or all of them.
DataFails(n) ==
  { {} } \cup { {k} : k \in {0, 1, n - 1} } \cup { 0 .. (n - 1) }
Transports(n) ==
  [unlock : BOOLEAN, select : BOOLEAN, data : DataFails(n)]
Reliable == [unlock |-> TRUE, select |-> TRUE, data |-> {}]
\* the transports on which at most one of the three fails, and the dead bus
Dead(n) == [unlock |-> FALSE, select |-> FALSE, data |-> 0 .. (n - 1)]
SingleFaultTransports(n) ==
  { t \in Transports(n) :
      \/ t.unlock /\ t.select
      \/ t.data = {} /\ (t.unlock \/ t.select) } \cup { Dead(n) }

(* ----------------------- register transport adapter -------------------- *)

\* is31fl3733_write_register: one 2-byte transmission (persistence 0);
\* returns false when the transmission fails.
is31fl3733_write_register(addr, reg, data, ok) ==
  [txs |-> << Tx(addr, << reg, data >>, ok) >>, ret |-> ok]

\* is31fl3733_write_pwm_buffer: the loop over i = 0, 16, ..., 176; returns
\* false at the first transfer that fails.
RECURSIVE WritePwmFrom(_, _, _, _)
WritePwmFrom(addr, pwm_buffer, i, fails) ==
  IF i >= PWM_REGISTER_COUNT THEN [txs |-> << >>, ret |-> TRUE]
  ELSE LET ok == (i \div PWM_CHUNK) \notin fails
           tx == Tx(addr,
                    << i >> \o [j \in 1 .. PWM_CHUNK |-> pwm_buffer[i + j - 1]],
                    ok)
       IN IF ~ok THEN [txs |-> << tx >>, ret |-> FALSE]
          ELSE LET rest == WritePwmFrom(addr, pwm_buffer, i + PWM_CHUNK, fails)
               IN [txs |-> << tx >> \o rest.txs, ret |-> rest.ret]
\* variant: every transfer copies from pwm_buffer instead of pwm_buffer + i
write_pwm_buffer_copies_start(addr, pwm_buffer, fails) ==
  WritePwmFrom(addr, [r \in PwmRegs |-> pwm_buffer[r % PWM_CHUNK]], 0, fails)
\* variant: the transfer is prefixed with the chunk number i / 16, not with i
write_pwm_buffer_chunk_number(addr, pwm_buffer, fails) ==
  LET w == WritePwmFrom(addr, pwm_buffer, 0, fails)
  IN [txs |-> [n \in 1 .. Len(w.txs) |->
                 [w.txs[n] EXCEPT !.data[1] = n - 1]],
      ret |-> w.ret]
\* variant: a failed transfer is remembered but the loop goes on
write_pwm_buffer_continues(addr, pwm_buffer, fails) ==
  LET all == WritePwmFrom(addr, pwm_buffer, 0, {})
  IN [txs |-> [n \in 1 .. Len(all.txs) |->
                 [all.txs[n] EXCEPT !.ok = (n - 1) \notin fails]],
      ret |-> \A n \in 1 .. Len(all.txs) : (n - 1) \notin fails]
is31fl3733_write_pwm_buffer(addr, pwm_buffer, fails) ==
  WritePwmFrom(addr, pwm_buffer, 0, fails)

(* --------------------------- value mutation API ------------------------ *)

Pow2(n) == 2 ^ n
BitOf(byte, n) == (byte \div Pow2(n)) % 2
\* byte | (1 << n)   and   byte & ~(1 << n)   on a uint8_t
OrBit(byte, n) == IF BitOf(byte, n) = 1 THEN byte ELSE byte + Pow2(n)
AndNotBit(byte, n) == IF BitOf(byte, n) = 1 THEN byte - Pow2(n) ELSE byte

\* variant: stores the value without marking the buffer for an update
set_value_no_mark(index, value) ==
  IF index >= 0 /\ index < LED_MATRIX_LED_COUNT
  THEN LET led == g_is31_leds(index)
       IN IF g_pwm_buffer[led.driver][led.v] = value
          THEN [pwm |-> g_pwm_buffer, dirty |-> g_pwm_buffer_update_required,
                ret |-> "same"]
          ELSE [pwm |-> [g_pwm_buffer EXCEPT ![led.driver][led.v] = value],
                dirty |-> g_pwm_buffer_update_required,
                ret |-> "stored"]
  ELSE [pwm |-> g_pwm_buffer, dirty |-> g_pwm_buffer_update_required,
        ret |-> "range"]
\* variant: the early return compares with >= instead of ==
set_value_returns_on_ge(index, value) ==
  IF index >= 0 /\ index < LED_MATRIX_LED_COUNT
  THEN LET led == g_is31_leds(index)
       IN IF g_pwm_buffer[led.driver][led.v] >= value
          THEN [pwm |-> g_pwm_buffer, dirty |-> g_pwm_buffer_update_required,
                ret |-> "same"]
          ELSE [pwm |-> [g_pwm_buffer EXCEPT ![led.driver][led.v] = value],
                dirty |-> [g_pwm_buffer_update_required
                             EXCEPT ![led.driver] = TRUE],
                ret |-> "stored"]
  ELSE [pwm |-> g_pwm_buffer, dirty |-> g_pwm_buffer_update_required,
        ret |-> "range"]
\* variant: no early return when the stored byte already equals value
set_value_always_marks(index, value) ==
  IF index >= 0 /\ index < LED_MATRIX_LED_COUNT
  THEN LET led == g_is31_leds(index)
       IN [pwm |-> [g_pwm_buffer EXCEPT ![led.driver][led.v] = value],
           dirty |-> [g_pwm_buffer_update_required
                        EXCEPT ![led.driver] = TRUE],
           ret |-> IF g_pwm_buffer[led.driver][led.v] = value
                   THEN "same" ELSE "stored"]
  ELSE [pwm |-> g_pwm_buffer, dirty |-> g_pwm_buffer_update_required,
        ret |-> "range"]
\* variant: the range check reads index <= LED_MATRIX_LED_COUNT
set_value_range_off_by_one(index, value) ==
  IF index >= 0 /\ index <= LED_MATRIX_LED_COUNT
  THEN LET led == g_is31_leds(index)
       IN IF g_pwm_buffer[led.driver][led.v] = value
          THEN [pwm |-> g_pwm_buffer, dirty |-> g_pwm_buffer_update_required,
                ret |-> IF index < LED_MATRIX_LED_COUNT
                        THEN "same" ELSE "range"]
          ELSE [pwm |-> [g_pwm_buffer EXCEPT ![led.driver][led.v] = value],
                dirty |-> [g_pwm_buffer_update_required
                             EXCEPT ![led.driver] = TRUE],
                ret |-> IF index < LED_MATRIX_LED_COUNT
                        THEN "stored" ELSE "range"]
  ELSE [pwm |-> g_pwm_buffer, dirty |-> g_pwm_buffer_update_required,
        ret |-> "range"]

\* The body of is31fl3733_set_value run on PWM buffers pwm and PWM flags
\* dirty: the buffers and flags it leaves, and how it returned ("range":
\* index out of range, "same": the stored byte already equals value,
\* "stored").
SetValueIn(pwm, dirty, index, value) ==
  IF index >= 0 /\ index < LED_MATRIX_LED_COUNT
  THEN LET led == g_is31_leds(index)
       IN IF pwm[led.driver][led.v] = value
          THEN [pwm |-> pwm, dirty |-> dirty, ret |-> "same"]
          ELSE [pwm |-> [pwm EXCEPT ![led.driver][led.v] = value],
                dirty |-> [dirty EXCEPT ![led.driver] = TRUE],
                ret |-> "stored"]
  ELSE [pwm |-> pwm, dirty |-> dirty, ret |-> "range"]

\* is31fl3733_set_value(index, value) on the driver's buffers and flags
is31fl3733_set_value(index, value) ==
  SetValueIn(g_pwm_buffer, g_pwm_buffer_update_required, index, value)

\* the loop  for (i = 0; i < LED_MATRIX_LED_COUNT; i++) set_value(i, value),
\* each call working on what the call before it left
RECURSIVE SetValueAllFrom(_, _, _, _)
SetValueAllFrom(pwm, dirty, i, value) ==
  IF i >= LED_MATRIX_LED_COUNT THEN [pwm |-> pwm, dirty |-> dirty]
  ELSE LET r == SetValueIn(pwm, dirty, i, value)
       IN SetValueAllFrom(r.pwm, r.dirty, i + 1, value)
\* variant: the loop starts at index 1
set_value_all_skips_first(value) ==
  SetValueAllFrom(g_pwm_buffer, g_pwm_buffer_update_required, 1, value)
\* is31fl3733_set_value_all(value)
is31fl3733_set_value_all(value) ==
  SetValueAllFrom(g_pwm_buffer, g_pwm_buffer_update_required, 0, value)

\* variant: marks the control buffers of all drivers for an update
set_led_control_register_marks_all(index, value) ==
  LET led == g_is31_leds(index)
      control_register == led.v \div 8
      bit_value == led.v % 8
      old == g_led_control_registers[led.driver][control_register]
  IN [ctrl |-> [g_led_control_registers
                  EXCEPT ![led.driver][control_register] =
                    IF value THEN OrBit(old, bit_value)
                    ELSE AndNotBit(old, bit_value)],
      dirty |-> [d \in Drivers |-> TRUE]]
\* variant: marks the control buffer only when the bit changes
set_led_control_register_on_change(index, value) ==
  LET led == g_is31_leds(index)
      control_register == led.v \div 8
      bit_value == led.v % 8
      old == g_led_control_registers[led.driver][control_register]
      new == IF value THEN OrBit(old, bit_value)
             ELSE AndNotBit(old, bit_value)
  IN [ctrl |-> [g_led_control_registers
                  EXCEPT ![led.driver][control_register] = new],
      dirty |-> IF new = old THEN g_led_control_registers_update_required
                ELSE [g_led_control_registers_update_required
                        EXCEPT ![led.driver] = TRUE]]

\* variant: the register is assigned the mask (= instead of |= and &=)
set_led_control_register_assigns(index, value) ==
  LET led == g_is31_leds(index)
      control_register == led.v \div 8
      bit_value == led.v % 8
  IN [ctrl |-> [g_led_control_registers
                  EXCEPT ![led.driver][control_register] =
                    IF value THEN Pow2(bit_value) ELSE 0],
      dirty |-> [g_led_control_registers_update_required
                   EXCEPT ![led.driver] = TRUE]]

\* is31fl3733_set_led_control_register(index, value): the control buffers
\* and control flags it leaves.
is31fl3733_set_led_control_register(index, value) ==
  LET led == g_is31_leds(index)
      control_register == led.v \div 8
      bit_value == led.v % 8
      old == g_led_control_registers[led.driver][control_register]
  IN [ctrl |-> [g_led_control_registers
                  EXCEPT ![led.driver][control_register] =
                    IF value THEN OrBit(old, bit_value)
                    ELSE AndNotBit(old, bit_value)],
      dirty |-> [g_led_control_registers_update_required
                   EXCEPT ![led.driver] = TRUE]]

(* ----------------------------- flush engine ---------------------------- *)

\* variant: a failed block write does not mark the control buffer
update_pwm_buffers_no_resync(addr, index, t) ==
  IF g_pwm_buffer_update_required[index]
  THEN LET w1 == is31fl3733_write_register(
                   addr, IS31FL3733_COMMANDREGISTER_WRITELOCK, UNLOCK_BYTE,
                   t.unlock)
           w2 == is31fl3733_write_register(
                   addr, IS31FL3733_COMMANDREGISTER, IS31FL3733_PAGE_PWM,
                   t.select)
           w3 == is31fl3733_write_pwm_buffer(addr, g_pwm_buffer[index], t.data)
       IN [txs |-> w1.txs \o w2.txs \o w3.txs,
           pwmDirty |-> FALSE,
           ctrlDirty |-> g_led_control_registers_update_required[index],
           ret |-> IF w3.ret THEN "ok" ELSE "fail"]
  ELSE [txs |-> << >>,
        pwmDirty |-> g_pwm_buffer_update_required[index],
        ctrlDirty |-> g_led_control_registers_update_required[index],
        ret |-> "clean"]
\* variant: the buffer is written without looking at the flag
update_pwm_buffers_unconditional(addr, index, t) ==
  LET w1 == is31fl3733_write_register(
              addr, IS31FL3733_COMMANDREGISTER_WRITELOCK, UNLOCK_BYTE,
              t.unlock)
      w2 == is31fl3733_write_register(
              addr, IS31FL3733_COMMANDREGISTER, IS31FL3733_PAGE_PWM, t.select)
      w3 == is31fl3733_write_pwm_buffer(addr, g_pwm_buffer[index], t.data)
  IN [txs |-> w1.txs \o w2.txs \o w3.txs,
      pwmDirty |-> FALSE,
      ctrlDirty |-> IF ~w3.ret THEN TRUE
                    ELSE g_led_control_registers_update_required[index],
      ret |-> IF ~g_pwm_buffer_update_required[index] THEN "clean"
              ELSE IF w3.ret THEN "ok" ELSE "fail"]

\* variant: the flag and the buffer of driver 0 are used, not of index
update_pwm_buffers_of_driver_0(addr, index, t) ==
  IF g_pwm_buffer_update_required[0]
  THEN LET w1 == is31fl3733_write_register(
                   addr, IS31FL3733_COMMANDREGISTER_WRITELOCK, UNLOCK_BYTE,
                   t.unlock)
           w2 == is31fl3733_write_register(
                   addr, IS31FL3733_COMMANDREGISTER, IS31FL3733_PAGE_PWM,
                   t.select)
           w3 == is31fl3733_write_pwm_buffer(addr, g_pwm_buffer[0], t.data)
       IN [txs |-> w1.txs \o w2.txs \o w3.txs,
           pwmDirty |-> FALSE,
           ctrlDirty |-> IF ~w3.ret THEN TRUE
                         ELSE g_led_control_registers_update_required[index],
           ret |-> IF w3.ret THEN "ok" ELSE "fail"]
  ELSE [txs |-> << >>,
        pwmDirty |-> g_pwm_buffer_update_required[index],
        ctrlDirty |-> g_led_control_registers_update_required[index],
        ret |-> "clean"]
\* variant: any failed write, also of the unlock or the page select, marks
\* the control buffer
update_pwm_buffers_resync_on_any(addr, index, t) ==
  IF g_pwm_buffer_update_required[index]
  THEN LET w1 == is31fl3733_write_register(
                   addr, IS31FL3733_COMMANDREGISTER_WRITELOCK, UNLOCK_BYTE,
                   t.unlock)
           w2 == is31fl3733_write_register(
                   addr, IS31FL3733_COMMANDREGISTER, IS31FL3733_PAGE_PWM,
                   t.select)
           w3 == is31fl3733_write_pwm_buffer(addr, g_pwm_buffer[index], t.data)
       IN [txs |-> w1.txs \o w2.txs \o w3.txs,
           pwmDirty |-> FALSE,
           ctrlDirty |-> IF ~(w1.ret /\ w2.ret /\ w3.ret) THEN TRUE
                         ELSE g_led_control_registers_update_required[index],
           ret |-> IF w3.ret THEN "ok" ELSE "fail"]
  ELSE [txs |-> << >>,
        pwmDirty |-> g_pwm_buffer_update_required[index],
        ctrlDirty |-> g_led_control_registers_update_required[index],
        ret |-> "clean"]

\* is31fl3733_update_pwm_buffers(addr, index) under transport t: the
\* transmissions it issues, the two flags it leaves for driver index, and how
\* it returned ("clean": flag not set, "ok": block written, "fail": block
\* write returned false).
is31fl3733_update_pwm_buffers(addr, index, t) ==
  IF g_pwm_buffer_update_required[index]
  THEN LET w1 == is31fl3733_write_register(
                   addr, IS31FL3733_COMMANDREGISTER_WRITELOCK, UNLOCK_BYTE,
                   t.unlock)
           w2 == is31fl3733_write_register(
                   addr, IS31FL3733_COMMANDREGISTER, IS31FL3733_PAGE_PWM,
                   t.select)
           w3 == is31fl3733_write_pwm_buffer(addr, g_pwm_buffer[index], t.data)
       IN [txs |-> w1.txs \o w2.txs \o w3.txs,
           pwmDirty |-> FALSE,
           ctrlDirty |-> IF ~w3.ret THEN TRUE
                         ELSE g_led_control_registers_update_required[index],
           ret |-> IF w3.ret THEN "ok" ELSE "fail"]
  ELSE [txs |-> << >>,
        pwmDirty |-> g_pwm_buffer_update_required[index],
        ctrlDirty |-> g_led_control_registers_update_required[index],
        ret |-> "clean"]

\* the loop  for (i = 0; i < 24; i++) write_register(addr, i, regs[i])
RECURSIVE WriteCtrlFrom(_, _, _, _)
WriteCtrlFrom(addr, regs, i, fails) ==
  IF i >= LED_CONTROL_REGISTER_COUNT THEN << >>
  ELSE is31fl3733_write_register(addr, i, regs[i], i \notin fails).txs
         \o WriteCtrlFrom(addr, regs, i + 1, fails)

\* variant: the register loop ends at the first write that fails
update_led_control_registers_fail_fast(addr, index, t) ==
  IF g_led_control_registers_update_required[index]
  THEN LET w1 == is31fl3733_write_register(
                   addr, IS31FL3733_COMMANDREGISTER_WRITELOCK, UNLOCK_BYTE,
                   t.unlock)
           w2 == is31fl3733_write_register(
                   addr, IS31FL3733_COMMANDREGISTER,
                   IS31FL3733_PAGE_LEDCONTROL, t.select)
           all == WriteCtrlFrom(addr, g_led_control_registers[index],
                                0, t.data)
           stop == IF t.data = {} THEN Len(all)
                   ELSE 1 + CHOOSE k \in t.data : \A j \in t.data : k <= j
       IN [txs |-> w1.txs \o w2.txs \o SubSeq(all, 1, stop),
           ctrlDirty |-> FALSE,
           ret |-> "done"]
  ELSE [txs |-> << >>,
        ctrlDirty |-> g_led_control_registers_update_required[index],
        ret |-> "clean"]

\* variant: the control page is not selected before the registers go out
update_led_control_registers_no_select(addr, index, t) ==
  IF g_led_control_registers_update_required[index]
  THEN LET w1 == is31fl3733_write_register(
                   addr, IS31FL3733_COMMANDREGISTER_WRITELOCK, UNLOCK_BYTE,
                   t.unlock)
       IN [txs |-> w1.txs
                     \o WriteCtrlFrom(addr, g_led_control_registers[index],
                                      0, t.data),
           ctrlDirty |-> FALSE,
           ret |-> "done"]
  ELSE [txs |-> << >>,
        ctrlDirty |-> g_led_control_registers_update_required[index],
        ret |-> "clean"]

\* is31fl3733_update_led_control_registers(addr, index) under transport t
is31fl3733_update_led_control_registers(addr, index, t) ==
  IF g_led_control_registers_update_required[index]
  THEN LET w1 == is31fl3733_write_register(
                   addr, IS31FL3733_COMMANDREGISTER_WRITELOCK, UNLOCK_BYTE,
                   t.unlock)
           w2 == is31fl3733_write_register(
                   addr, IS31FL3733_COMMANDREGISTER,
                   IS31FL3733_PAGE_LEDCONTROL, t.select)
       IN [txs |-> w1.txs \o w2.txs
                     \o WriteCtrlFrom(addr, g_led_control_registers[index],
                                      0, t.data),
           ctrlDirty |-> FALSE,
           ret |-> "done"]
  ELSE [txs |-> << >>,
        ctrlDirty |-> g_led_control_registers_update_required[index],
        ret |-> "clean"]

(* --------------------------- device initializer ------------------------ *)

\* the configuration byte: sync role, PWM frequency, software shutdown off
\*   ((sync & 0b11) << 6) | ((IS31FL3733_PWM_FREQUENCY & 0b111) << 3) | 0x01
ConfigurationByte(sync) ==
  (sync % 4) * 64 + (IS31FL3733_PWM_FREQUENCY % 8) * 8 + 1
UnlockWrite == << IS31FL3733_COMMANDREGISTER_WRITELOCK, UNLOCK_BYTE >>
SelectWrite(page) == << IS31FL3733_COMMANDREGISTER, page >>
\* for (i = 0; i <= last; i++) write_register(addr, i, 0x00)
ZeroWrites(last) == [i \in 1 .. (last + 1) |-> << i - 1, 0 >>]
\* the four settings written to the function page, the configuration last
FunctionWrites(sync) ==
  << << IS31FL3733_REG_SWPULLUP, IS31FL3733_SWPULLUP >>,
     << IS31FL3733_REG_CSPULLUP, IS31FL3733_CSPULLUP >>,
     << IS31FL3733_REG_GLOBALCURRENT, IS31FL3733_GLOBALCURRENT >>,
     << IS31FL3733_REG_CONFIGURATION, ConfigurationByte(sync) >> >>
\* the (register, value) pairs of is31fl3733_init's write_register calls
InitWrites(sync) ==
  << UnlockWrite, SelectWrite(IS31FL3733_PAGE_LEDCONTROL) >>
    \o ZeroWrites(LED_CONTROL_REGISTER_COUNT - 1)
    \o << UnlockWrite, SelectWrite(IS31FL3733_PAGE_PWM) >>
    \o ZeroWrites(PWM_REGISTER_COUNT - 1)
    \o << UnlockWrite, SelectWrite(IS31FL3733_PAGE_FUNCTION) >>
    \o FunctionWrites(sync)
\* the writes issued one after the other, no return value looked at;
\* fails is the set of positions whose transmission fails
IssueAll(addr, w, fails) ==
  [n \in 1 .. Len(w) |->
     is31fl3733_write_register(addr, w[n][1], w[n][2], n \notin fails).txs[1]]
\* variant: software shutdown is disabled before the pages are cleared
init_enables_first(addr, sync, fails) ==
  IssueAll(addr,
           << UnlockWrite, SelectWrite(IS31FL3733_PAGE_FUNCTION),
              FunctionWrites(sync)[4] >>
             \o SubSeq(InitWrites(sync), 1, Len(InitWrites(sync)) - 1),
           fails)
\* variant: the command register is not unlocked again for the PWM page
init_single_unlock(addr, sync, fails) ==
  IssueAll(addr,
           SubSeq(InitWrites(sync), 1, LED_CONTROL_REGISTER_COUNT + 2)
             \o SubSeq(InitWrites(sync), LED_CONTROL_REGISTER_COUNT + 4,
                       Len(InitWrites(sync))),
           fails)
\* is31fl3733_init(addr, sync): the transmissions it issues
is31fl3733_init(addr, sync, fails) == IssueAll(addr, InitWrites(sync), fails)
\* number of transmissions of one is31fl3733_init call
InitLength == Len(InitWrites(0))
\* the transmissions of is31fl3733_init that fail: none, the PWM page
\* select, the last write, or all
InitFailures ==
  { {}, {LED_CONTROL_REGISTER_COUNT + 4}, {InitLength}, 1 .. InitLength }

(* --------------------------- history variables ------------------------- *)

AllOk(txs) == \A n \in 1 .. Len(txs) : txs[n].ok

\* heal follows one dropped PWM update, of driver heal.dev:
\*   "idle"      nothing is followed (dev = -1)
\*   "dropped"   the last flush_pwm of dev that ran had its block write fail
\*   "again"     since then set_value was called for an LED of dev whose
\*               byte had not reached the chip, always with the byte it
\*               already held
\*   "mutated"   since then set_value changed the byte of such an LED
\*   "cycleSame" / "cycleMut"   flush_pwm of dev was then called and no
\*               transmission failed, coming from "again" / "mutated"
HealIdle == [dev |-> -1, phase |-> "idle"]
HealAfterSetValue(h, driver, affected, ret) ==
  IF h.dev # driver THEN h
  ELSE IF h.phase \in {"dropped", "again"} /\ affected
    THEN [h EXCEPT !.phase = IF ret = "stored" THEN "mutated" ELSE "again"]
  ELSE IF h.phase \in {"cycleSame", "cycleMut"} /\ ret = "stored"
    THEN HealIdle
  ELSE h
\* a dropped update of another driver is either followed from now on or not
HealAfterFlushPwm(h, index, r) ==
  IF r.ret = "fail"
    THEN { [dev |-> index, phase |-> "dropped"] }
           \cup (IF h.dev \notin {-1, index} THEN { h } ELSE { })
  ELSE IF h.dev # index THEN { h }
  ELSE IF AllOk(r.txs)
    THEN { IF h.phase = "again" THEN [h EXCEPT !.phase = "cycleSame"]
           ELSE IF h.phase = "mutated" THEN [h EXCEPT !.phase = "cycleMut"]
           ELSE IF r.ret = "clean" THEN h
           ELSE HealIdle }
  ELSE { HealIdle }
HealAfterFlushControl(h, index, r) ==
  IF h.dev = index /\ h.phase \in {"cycleSame", "cycleMut"} /\ r.ret # "clean"
  THEN HealIdle ELSE h

\* hist9 follows the scenario "only driver 1's control buffer is mutated":
\*   "none"      no call yet
\*   "dev1only"  every call so far was set_control_register on driver 1
\*   "flushed0"  ... followed by flush_control calls on driver 0 only
\*   "flushed01" ... followed by a flush_control on driver 1
\*   "other"     anything else
Hist9AfterSetControl(h, driver) ==
  IF driver = 1 /\ h \in {"none", "dev1only"} THEN "dev1only" ELSE "other"
Hist9AfterFlushControl(h, index) ==
  IF h \in {"dev1only", "flushed0"}
    THEN (IF index = 0 THEN "flushed0" ELSE "flushed01")
  ELSE "other"

\* would: recorded by a flush of driver a, for every other driver e, what
\* flush_pwm and flush_control of e do when called instead of the flush of
\* a, on a transport that succeeds ("reliable") and on one whose first data
\* transfer fails ("first"): the transmissions and the two flags of e
\* (out); and the driver whose flush came directly before that of a, when
\* it was not a itself (after, -1 otherwise).
FirstDataFails == [unlock |-> TRUE, select |-> TRUE, data |-> {0}]
WatchedTransport(name) == IF name = "reliable" THEN Reliable ELSE FirstDataFails
FlushOutcome(e, kind, t) ==
  IF kind = "flush_pwm"
  THEN LET r == is31fl3733_update_pwm_buffers(DriverAddr(e), e, t)
       IN [txs |-> r.txs, pwmDirty |-> r.pwmDirty, ctrlDirty |-> r.ctrlDirty]
  ELSE LET r == is31fl3733_update_led_control_registers(DriverAddr(e), e, t)
       IN [txs |-> r.txs, pwmDirty |-> g_pwm_buffer_update_required[e],
           ctrlDirty |-> r.ctrlDirty]
WouldNone == [after |-> -1, out |-> [e \in {} |-> 0]]
WouldAfterFlush(index) ==
  [after |-> IF lastOp.op \in {"flush_pwm", "flush_control"}
                  /\ lastOp.dev # index
             THEN lastOp.dev ELSE -1,
   out |-> [e \in Drivers \ {index} |->
              [kind \in {"flush_pwm", "flush_control"} |->
                 [name \in {"reliable", "first"} |->
                    FlushOutcome(e, kind, WatchedTransport(name))]]]]

\* chain follows a run of calls set_value(0, v), set_value(1, v), ...:
\* v, the index the next call of the run has, and the buffers and flags
\* set_value_all(v) leaves when called where the run started
ChainNone == [v |-> -1, next |-> 0, target |-> << >>]
ChainAfterSetValue(c, index, value) ==
  IF index = 0
    THEN [v |-> value, next |-> 1,
          target |-> LET a == is31fl3733_set_value_all(value)
                     IN << a.pwm, a.dirty >>]
  ELSE IF c.v = value /\ c.next = index /\ index < LED_MATRIX_LED_COUNT
    THEN [c EXCEPT !.next = index + 1]
  ELSE ChainNone

\* power follows the chip of one driver, dev (-1: none is followed):
\*   ok     the latest is31fl3733_init of dev had every transmission
\*          succeed, and no transmission to dev has failed since
\*   fresh  when that init ran, each shadow buffer of dev was all zero or
\*          had its dirty flag set
\*   done   the flushes of dev called since that init and since the latest
\*          mutation call
PowerIdle == [dev |-> -1, ok |-> FALSE, fresh |-> FALSE, done |-> {}]
PowerOff(d) == [dev |-> d, ok |-> FALSE, fresh |-> FALSE, done |-> {}]
Fresh(d) ==
  /\ g_pwm_buffer[d] = [r \in PwmRegs |-> 0] \/ g_pwm_buffer_update_required[d]
  /\ \/ g_led_control_registers[d] = [r \in CtrlRegs |-> 0]
     \/ g_led_control_registers_update_required[d]
PowerAfterInit(h, d, txs) ==
  IF h.dev # d THEN h
  ELSE IF AllOk(txs)
    THEN [dev |-> d, ok |-> TRUE, fresh |-> Fresh(d), done |-> {}]
  ELSE PowerOff(d)
PowerAfterMutation(h) == IF h.ok THEN [h EXCEPT !.done = {}] ELSE h
PowerAfterFlush(h, index, kind, txs) ==
  IF h.dev # index \/ ~h.ok THEN h
  ELSE IF AllOk(txs) THEN [h EXCEPT !.done = @ \cup {kind}]
  ELSE PowerOff(index)

(* -------------------------------- actions ------------------------------ *)
\* Each action is one call of the driver's API.  The program state is
\* updated the same way under every view; the view says what else is
\* observed of the call:
\*   "bus"   the call and its transmissions (bus, lastOp, req, hist9)
\*   "chip"  the pages of the chips after the transmissions (hw, fault)
\*   "heal"  the PWM pages of the chips, and the repair cycle (hw, heal)
\*   "boot"  the call and its transmissions, with the runs of calls that
\*           are compared (bus, lastOp, would, chain)
\*   "power" the pages of one chip, followed through its initialisation
\*           (hw, power)

ZeroPage(regs) == [r \in regs |-> 0]

Init ==
  /\ g_pwm_buffer = [d \in Drivers |-> ZeroPage(PwmRegs)]
  /\ g_pwm_buffer_update_required = [d \in Drivers |-> FALSE]
  /\ g_led_control_registers = [d \in Drivers |-> ZeroPage(CtrlRegs)]
  /\ g_led_control_registers_update_required = [d \in Drivers |-> FALSE]
  /\ hw = [d \in Drivers |->
             [pg0 |-> ZeroPage(CtrlRegs), pg1 |-> ZeroPage(PwmRegs)]]
  /\ bus = << >>
  /\ lastOp = [op |-> "none", dev |-> -1, idx |-> -1, val |-> 0, ret |-> ""]
  /\ req = [l \in Locations |-> 0]
  /\ hist9 = "none"
  /\ heal = HealIdle
  /\ fault = FALSE
  /\ would = WouldNone
  /\ chain = ChainNone
  /\ power = PowerIdle

Log(view, txs, op, h9, rq) ==
  IF view = "bus"
  THEN /\ bus' = txs
       /\ lastOp' = op
       /\ hist9' = h9
       /\ req' = rq
  ELSE IF view = "boot"
    THEN /\ bus' = txs
         /\ lastOp' = op
         /\ UNCHANGED << req, hist9 >>
  ELSE UNCHANGED << bus, lastOp, req, hist9 >>

Chip(view, h, hl, f) ==
  IF view = "chip" THEN /\ hw' = h
                        /\ fault' = f
                        /\ UNCHANGED heal
  ELSE IF view = "heal"
    THEN /\ hw' = [d \in Drivers |-> [pg0 |-> hw[d].pg0, pg1 |-> h[d].pg1]]
         /\ heal' = hl
         /\ UNCHANGED fault
  ELSE IF view = "power"
    THEN /\ hw' = h
         /\ UNCHANGED << heal, fault >>
  ELSE UNCHANGED << hw, heal, fault >>

\* the chips after driver index was sent txs; under "power" only the chip
\* that is followed is looked at
HwAfter(view, index, txs) ==
  IF view = "power" /\ index # power.dev THEN hw
  ELSE [hw EXCEPT ![index] = HwRun(@, txs)]

Watch(view, w, c, pw) ==
  /\ IF view = "boot" THEN /\ would' = w
                          /\ chain' = c
     ELSE UNCHANGED << would, chain >>
  /\ IF view = "power" THEN power' = pw ELSE UNCHANGED power

\* set_value(index, value), index possibly out of range
SetValue(view) ==
  \E index \in -1 .. LED_MATRIX_LED_COUNT, value \in Values :
    \E r \in { is31fl3733_set_value(index, value) } :
      LET inRange == index \in LedIndices
          led == g_is31_leds(index)
      IN /\ g_pwm_buffer' = r.pwm
         /\ g_pwm_buffer_update_required' = r.dirty
         /\ UNCHANGED << g_led_control_registers,
                         g_led_control_registers_update_required >>
         /\ Log(view, << >>,
                [op |-> "set_value",
                 dev |-> IF inRange THEN led.driver ELSE -1,
                 idx |-> index, val |-> value, ret |-> r.ret],
                "other",
                IF inRange
                THEN [req EXCEPT ![<< led.driver, led.v >>] = value]
                ELSE req)
         /\ Chip(view, hw,
                 IF inRange
                 THEN HealAfterSetValue(
                        heal, led.driver,
                        hw[led.driver].pg1[led.v]
                          # g_pwm_buffer[led.driver][led.v],
                        r.ret)
                 ELSE heal,
                 FALSE)
         /\ Watch(view, WouldNone,
                  ChainAfterSetValue(chain, index, value),
                  PowerAfterMutation(power))

\* set_value_all(value)
SetValueAll(view) ==
  \E value \in Values :
    \E r \in { is31fl3733_set_value_all(value) } :
      /\ g_pwm_buffer' = r.pwm
      /\ g_pwm_buffer_update_required' = r.dirty
      /\ UNCHANGED << g_led_control_registers,
                      g_led_control_registers_update_required >>
      /\ Log(view, << >>,
             [op |-> "set_value_all", dev |-> -1, idx |-> -1, val |-> value,
              ret |-> ""],
             "other", [l \in Locations |-> value])
      /\ Chip(view, hw, heal, FALSE)
      /\ Watch(view, WouldNone, ChainNone,
               PowerAfterMutation(power))

\* set_control_register(index, enabled)
SetLedControlRegister(view) ==
  \E index \in LedIndices, value \in BOOLEAN :
    \E r \in { is31fl3733_set_led_control_register(index, value) } :
      LET led == g_is31_leds(index)
      IN /\ g_led_control_registers' = r.ctrl
         /\ g_led_control_registers_update_required' = r.dirty
         /\ UNCHANGED << g_pwm_buffer, g_pwm_buffer_update_required >>
         /\ Log(view, << >>,
                [op |-> "set_control_register", dev |-> led.driver,
                 idx |-> index, val |-> IF value THEN 1 ELSE 0,
                 ret |-> IF r.ctrl = g_led_control_registers
                         THEN "unchanged" ELSE "changed"],
                Hist9AfterSetControl(hist9, led.driver),
                req)
         /\ Chip(view, hw, heal, FALSE)
         /\ Watch(view, WouldNone, ChainNone,
                  PowerAfterMutation(power))

\* The transports a flush can meet.  A flush that returns at once issues no
\* transmission, so the transport is immaterial then.
FlushTransports(view, dirty, n) ==
  IF ~dirty THEN { Reliable }
  ELSE IF view = "bus" THEN Transports(n)
  ELSE IF view = "power" THEN { Reliable, Dead(n) }
  ELSE SingleFaultTransports(n)

\* flush_pwm(addr, index) with the board's address for that driver
UpdatePwmBuffers(view) ==
  \E index \in Drivers :
    \E t \in FlushTransports(view, g_pwm_buffer_update_required[index],
                             NumChunks) :
      \E r \in { is31fl3733_update_pwm_buffers(DriverAddr(index), index, t) } :
       \E hl \in HealAfterFlushPwm(heal, index, r) :
         /\ g_pwm_buffer_update_required' =
              [g_pwm_buffer_update_required EXCEPT ![index] = r.pwmDirty]
         /\ g_led_control_registers_update_required' =
              [g_led_control_registers_update_required
                 EXCEPT ![index] = r.ctrlDirty]
         /\ UNCHANGED << g_pwm_buffer, g_led_control_registers >>
         /\ Log(view, r.txs,
                [op |-> "flush_pwm", dev |-> index, idx |-> -1, val |-> 0,
                 ret |-> r.ret],
                "other", req)
         /\ Chip(view, HwAfter(view, index, r.txs), hl,
                 ~AllOk(r.txs))
         /\ Watch(view, WouldAfterFlush(index), ChainNone,
                  PowerAfterFlush(power, index, "flush_pwm", r.txs))

\* flush_control(addr, index) with the board's address for that driver
UpdateLedControlRegisters(view) ==
  \E index \in Drivers :
    \E t \in FlushTransports(view,
                             g_led_control_registers_update_required[index],
                             LED_CONTROL_REGISTER_COUNT) :
      \E r \in { is31fl3733_update_led_control_registers(
                   DriverAddr(index), index, t) } :
         /\ g_led_control_registers_update_required' =
              [g_led_control_registers_update_required
                 EXCEPT ![index] = r.ctrlDirty]
         /\ UNCHANGED << g_pwm_buffer, g_pwm_buffer_update_required,
                         g_led_control_registers >>
         /\ Log(view, r.txs,
                [op |-> "flush_control", dev |-> index, idx |-> -1,
                 val |-> 0, ret |-> r.ret],
                Hist9AfterFlushControl(hist9, index), req)
         /\ Chip(view, HwAfter(view, index, r.txs),
                 HealAfterFlushControl(heal, index, r),
                 ~AllOk(r.txs))
         /\ Watch(view, WouldAfterFlush(index), ChainNone,
                  PowerAfterFlush(power, index, "flush_control", r.txs))

\* The init calls a view draws: a chip is followed through a call that
\* succeeds and through one that reaches nothing, the sync role being of no
\* consequence for its pages.
InitFailuresIn(view) ==
  IF view = "power" THEN { {}, 1 .. InitLength } ELSE InitFailures
SyncValuesIn(view) == IF view = "power" THEN { 1 } ELSE SyncValues

\* variant: init also marks every buffer of the driver as written
InitDeviceClearsFlags(view) ==
  \E index \in Drivers, sync \in SyncValuesIn(view),
     fails \in InitFailuresIn(view) :
    \E txs \in { is31fl3733_init(DriverAddr(index), sync, fails) } :
         /\ g_pwm_buffer_update_required' =
              [g_pwm_buffer_update_required EXCEPT ![index] = FALSE]
         /\ g_led_control_registers_update_required' =
              [g_led_control_registers_update_required
                 EXCEPT ![index] = FALSE]
         /\ UNCHANGED << g_pwm_buffer, g_led_control_registers >>
         /\ Log(view, txs,
                [op |-> "init", dev |-> index, idx |-> -1, val |-> sync,
                 ret |-> ""],
                "other", req)
         /\ Chip(view, HwAfter(view, index, txs), heal, ~AllOk(txs))
         /\ Watch(view, WouldNone, ChainNone,
                  PowerAfterInit(power, index, txs))

\* init(addr, sync) with the board's address for that driver
InitDevice(view) ==
  \E index \in Drivers, sync \in SyncValuesIn(view),
     fails \in InitFailuresIn(view) :
    \E txs \in { is31fl3733_init(DriverAddr(index), sync, fails) } :
         /\ UNCHANGED prog
         /\ Log(view, txs,
                [op |-> "init", dev |-> index, idx |-> -1, val |-> sync,
                 ret |-> ""],
                "other", req)
         /\ Chip(view, HwAfter(view, index, txs), heal, ~AllOk(txs))
         /\ Watch(view, WouldNone, ChainNone,
                  PowerAfterInit(power, index, txs))

\* the driver's calls, observed on the bus
Next ==
  \/ SetValue("bus")
  \/ SetLedControlRegister("bus")
  \/ UpdatePwmBuffers("bus")
  \/ UpdateLedControlRegisters("bus")

Spec == Init /\ [][Next]_vars

\* the driver's calls, followed into the chips
NextHw ==
  \/ SetValue("chip")
  \/ SetLedControlRegister("chip")
  \/ UpdatePwmBuffers("chip")
  \/ UpdateLedControlRegisters("chip")

SpecHw == Init /\ [][NextHw]_vars

\* the driver's calls, followed into the PWM pages, with the repair cycle
NextHeal ==
  \/ SetValue("heal")
  \/ SetLedControlRegister("heal")
  \/ UpdatePwmBuffers("heal")
  \/ UpdateLedControlRegisters("heal")

SpecHeal == Init /\ [][NextHeal]_vars

\* every call of the driver's interface, observed on the bus
NextBoot ==
  \/ InitDevice("boot")
  \/ SetValue("boot")
  \/ SetValueAll("boot")
  \/ SetLedControlRegister("boot")
  \/ UpdatePwmBuffers("boot")
  \/ UpdateLedControlRegisters("boot")

SpecBoot == Init /\ [][NextBoot]_vars

\* every call of the driver's interface, followed into the chips
NextPower ==
  \/ InitDevice("power")
  \/ SetValue("power")
  \/ SetValueAll("power")
  \/ SetLedControlRegister("power")
  \/ UpdatePwmBuffers("power")
  \/ UpdateLedControlRegisters("power")

\* the chip of either driver is followed, from the start
InitPower ==
  /\ g_pwm_buffer = [d \in Drivers |-> ZeroPage(PwmRegs)]
  /\ g_pwm_buffer_update_required = [d \in Drivers |-> FALSE]
  /\ g_led_control_registers = [d \in Drivers |-> ZeroPage(CtrlRegs)]
  /\ g_led_control_registers_update_required = [d \in Drivers |-> FALSE]
  /\ hw = [d \in Drivers |->
             [pg0 |-> ZeroPage(CtrlRegs), pg1 |-> ZeroPage(PwmRegs)]]
  /\ bus = << >>
  /\ lastOp = [op |-> "none", dev |-> -1, idx |-> -1, val |-> 0, ret |-> ""]
  /\ req = [l \in Locations |-> 0]
  /\ hist9 = "none"
  /\ heal = HealIdle
  /\ fault = FALSE
  /\ would = WouldNone
  /\ chain = ChainNone
  /\ power \in { PowerOff(d) : d \in Drivers }

SpecPower == InitPower /\ [][NextPower]_vars

\* is31fl3733_set_led_control_register applied to control buffers holding
\* arbitrary enable patterns: every register of a driver holds one of a few
\* sample bytes (all off, all on, alternating bits).
ControlSamples == {0, 255, 165, 90}
InitControl ==
  /\ g_pwm_buffer = [d \in Drivers |-> ZeroPage(PwmRegs)]
  /\ g_pwm_buffer_update_required = [d \in Drivers |-> FALSE]
  /\ g_led_control_registers
       \in [Drivers -> { [r \in CtrlRegs |-> b] : b \in ControlSamples }]
  /\ g_led_control_registers_update_required = [d \in Drivers |-> FALSE]
  /\ hw = [d \in Drivers |->
             [pg0 |-> ZeroPage(CtrlRegs), pg1 |-> ZeroPage(PwmRegs)]]
  /\ bus = << >>
  /\ lastOp = [op |-> "none", dev |-> -1, idx |-> -1, val |-> 0, ret |-> ""]
  /\ req = [l \in Locations |-> 0]
  /\ hist9 = "none"
  /\ heal = HealIdle
  /\ fault = FALSE
  /\ would = WouldNone
  /\ chain = ChainNone
  /\ power = PowerIdle

NextControl == SetLedControlRegister("bus")

SpecControl == InitControl /\ [][NextControl]_vars

(* ------------------------------ properties ----------------------------- *)

PwmFlushes == {"flush_pwm"}
Flushes == {"flush_pwm", "flush_control"}
\* the 17-byte transfers of a call, and its writes of control-page registers
BlockWrites(txs) == SelectSeq(txs, LAMBDA tx : Len(tx.data) = PWM_CHUNK + 1)
RegisterWrites(txs) ==
  SelectSeq(txs, LAMBDA tx : Len(tx.data) = 2 /\ tx.data[1] \in CtrlRegs)
BlockFailed(txs) ==
  \E n \in 1 .. Len(txs) : Len(txs[n].data) = PWM_CHUNK + 1 /\ ~txs[n].ok
\* start register 16k followed by bytes 16k .. 16k+15 of buf
ChunkOf(buf, k) == << 16 * k >> \o [j \in 1 .. 16 |-> buf[16 * k + j - 1]]
\* registers 0 .. 23 written once each, in ascending order, with regs' bytes
WholeControlPage(txs, regs) ==
  LET w == RegisterWrites(txs)
  IN /\ Len(w) = 24
     /\ \A i \in 0 .. 23 : w[i + 1].data = << i, regs[i] >>
StoredAt(index) ==
  g_pwm_buffer[g_is31_leds(index).driver][g_is31_leds(index).v]

\* C1 as stated: for every driver and both buffers, whenever the shadow
\* buffer differs from the contents last successfully written to the
\* hardware page, the buffer's dirty flag is true.
C1_FlagTracksHardware ==
  \A d \in Drivers :
    /\ g_pwm_buffer[d] # hw[d].pg1 => g_pwm_buffer_update_required[d]
    /\ g_led_control_registers[d] # hw[d].pg0
         => g_led_control_registers_update_required[d]

\* C1 amended: every call that changes a shadow buffer leaves that buffer's
\* dirty flag true; the flag is cleared only by a call that leaves the buffer
\* as it is (a flush of that buffer), and when no transmission of that call
\* failed the hardware page then equals the shadow buffer; the hardware page
\* changes only in such a call.  A flush with a failed transmission clears
\* the flag all the same.
C1_FlagCoversChanges ==
  [][\A d \in Drivers :
       /\ g_pwm_buffer'[d] # g_pwm_buffer[d]
            => g_pwm_buffer_update_required'[d]
       /\ g_led_control_registers'[d] # g_led_control_registers[d]
            => g_led_control_registers_update_required'[d]
       /\ (g_pwm_buffer_update_required[d]
             /\ ~g_pwm_buffer_update_required'[d])
            => /\ g_pwm_buffer'[d] = g_pwm_buffer[d]
               /\ ~fault' => hw'[d].pg1 = g_pwm_buffer'[d]
       /\ (g_led_control_registers_update_required[d]
             /\ ~g_led_control_registers_update_required'[d])
            => /\ g_led_control_registers'[d] = g_led_control_registers[d]
               /\ ~fault' => hw'[d].pg0 = g_led_control_registers'[d]
       /\ hw'[d].pg1 # hw[d].pg1
            => (g_pwm_buffer_update_required[d]
                  /\ ~g_pwm_buffer_update_required'[d])
       /\ hw'[d].pg0 # hw[d].pg0
            => (g_led_control_registers_update_required[d]
                  /\ ~g_led_control_registers_update_required'[d])
    ]_vars

\* One driver's PWM flag is clear although its shadow differs from the chip
\* (a flush with a failed transfer cleared it) while the other driver's
\* non-zero PWM buffer has reached its chip.
C1_Witness ==
  \E d, e \in Drivers :
    /\ ~g_pwm_buffer_update_required[d]
    /\ g_pwm_buffer[d] # hw[d].pg1
    /\ ~g_pwm_buffer_update_required[e]
    /\ g_pwm_buffer[e] = hw[e].pg1
    /\ g_pwm_buffer[e] # ZeroPage(PwmRegs)

\* C2 as stated: after a flush_pwm whose block write failed, calling
\* set_value again for the affected LED (with whatever value) and then
\* flush_pwm on a transport that succeeds leaves the chip's PWM page equal to
\* the PWM shadow buffer.
C2_AnyCallHeals ==
  heal.phase \in {"cycleSame", "cycleMut"}
    => hw[heal.dev].pg1 = g_pwm_buffer[heal.dev]

\* C2 amended: after a flush_pwm whose block write failed, a set_value for
\* the affected LED that changes the stored byte, followed by flush_pwm on a
\* transport that succeeds, leaves the chip's PWM page equal to the PWM
\* shadow buffer.
C2_MutationHeals ==
  heal.phase = "cycleMut" => hw[heal.dev].pg1 = g_pwm_buffer[heal.dev]

C2_Witness ==
  /\ heal.phase = "cycleMut"
  /\ g_pwm_buffer[heal.dev] # ZeroPage(PwmRegs)
  /\ hw[heal.dev].pg1 = g_pwm_buffer[heal.dev]

\* C3: when a transfer of flush_pwm's block write fails, on return the
\* driver's control flag is true and its PWM flag false; and a flush_control
\* of a driver whose control flag is true writes the whole control page.
C3_FailedBlockWriteResyncs ==
  /\ [](lastOp.op \in PwmFlushes /\ BlockFailed(bus)
          => /\ g_led_control_registers_update_required[lastOp.dev]
             /\ ~g_pwm_buffer_update_required[lastOp.dev])
  /\ [][\A d \in Drivers :
          (/\ g_led_control_registers_update_required[d]
           /\ lastOp'.op = "flush_control"
           /\ lastOp'.dev = d)
            => WholeControlPage(bus', g_led_control_registers[d])
       ]_vars

\* a block write failed while the control buffer was never mutated
C3_Witness ==
  /\ lastOp.op = "flush_pwm"
  /\ BlockFailed(bus)
  /\ g_led_control_registers[lastOp.dev] = ZeroPage(CtrlRegs)
  /\ g_led_control_registers_update_required[lastOp.dev]
  /\ ~g_pwm_buffer_update_required[lastOp.dev]

\* C4: the PWM shadow byte at every mapped location is the value of the
\* latest set_value that resolved to it (0 if none), and no flush, whatever
\* its transfers do, changes a shadow byte.
C4_ShadowHoldsLastRequest ==
  /\ [](\A l \in Locations : g_pwm_buffer[l[1]][l[2]] = req[l])
  /\ [][lastOp'.op \in Flushes
          => /\ g_pwm_buffer' = g_pwm_buffer
             /\ g_led_control_registers' = g_led_control_registers
       ]_vars

\* a flush has failed after a non-zero value was requested
C4_Witness ==
  /\ lastOp.op = "flush_pwm"
  /\ lastOp.ret = "fail"
  /\ \E l \in Locations : req[l] # 0 /\ l[1] = lastOp.dev

\* C5: set_value(i, v) called while the byte at i's location equals v
\* changes no buffer and no flag.
C5_SameValueChangesNothing ==
  [][(/\ lastOp'.op = "set_value"
      /\ lastOp'.idx \in LedIndices
      /\ StoredAt(lastOp'.idx) = lastOp'.val)
       => UNCHANGED prog
    ]_vars

\* the value had been set and flushed: the flag was clear and stays clear
C5_Witness ==
  /\ lastOp.op = "set_value"
  /\ lastOp.ret = "same"
  /\ lastOp.val # 0
  /\ ~g_pwm_buffer_update_required[lastOp.dev]

\* C6: set_value with an index outside [0, LED_MATRIX_LED_COUNT) changes no
\* buffer and no flag.
C6_OutOfRangeChangesNothing ==
  [][(lastOp'.op = "set_value" /\ lastOp'.idx \notin LedIndices)
       => UNCHANGED prog
    ]_vars

C6_Witness ==
  /\ lastOp.op = "set_value"
  /\ lastOp.idx = LED_MATRIX_LED_COUNT
  /\ lastOp.val # 0
  /\ g_pwm_buffer = [d \in Drivers |-> ZeroPage(PwmRegs)]

\* C7: flush_pwm of a driver whose PWM flag is false issues no transmission
\* and changes nothing; with the flag true and every transmission
\* successful it leaves the flag false.
C7_CleanFlushIsSilent ==
  [][lastOp'.op = "flush_pwm"
       => /\ ~g_pwm_buffer_update_required[lastOp'.dev]
               => (bus' = << >> /\ UNCHANGED prog)
          /\ (g_pwm_buffer_update_required[lastOp'.dev] /\ AllOk(bus'))
               => ~g_pwm_buffer_update_required'[lastOp'.dev]
    ]_vars

C7_Witness ==
  /\ lastOp.op = "flush_pwm"
  /\ lastOp.ret = "ok"
  /\ bus # << >>
  /\ AllOk(bus)
  /\ ~g_pwm_buffer_update_required[lastOp.dev]

\* C8: on a transport that succeeds, flush_pwm of a dirty driver issues,
\* after the unlock and page-select writes, exactly 12 block transfers, the
\* k-th carrying register 16k and shadow bytes 16k .. 16k+15, so that every
\* requested value is carried at its offset.
C8_TwelveChunksInOrder ==
  (lastOp.op = "flush_pwm" /\ bus # << >> /\ AllOk(bus))
    => LET b == BlockWrites(bus)
       IN /\ Len(b) = 12
          /\ Len(bus) = 14
          /\ \A k \in 0 .. 11 :
               /\ bus[k + 3] = b[k + 1]
               /\ b[k + 1].addr = DriverAddr(lastOp.dev)
               /\ b[k + 1].data = ChunkOf(g_pwm_buffer[lastOp.dev], k)
          /\ \A l \in Locations :
               l[1] = lastOp.dev
                 => b[(l[2] \div 16) + 1].data[(l[2] % 16) + 2] = req[l]

\* set_value(0, 128) then flush_pwm of driver 0
C8_Witness ==
  /\ lastOp.op = "flush_pwm"
  /\ lastOp.dev = 0
  /\ bus # << >>
  /\ AllOk(bus)
  /\ req[<< 0, 0 >>] = 128

\* C9: when every call so far was a set_control_register resolving to
\* driver 1, flush_control of driver 0 issues no transmission and
\* flush_control of driver 1 writes exactly the 24 control registers.
C9_OnlyDriver1Flushes ==
  [][(hist9 \in {"dev1only", "flushed0"} /\ lastOp'.op = "flush_control")
       => IF lastOp'.dev = 0 THEN bus' = << >>
          ELSE WholeControlPage(bus', g_led_control_registers[1])
    ]_vars

C9_Witness ==
  /\ hist9 = "flushed01"
  /\ lastOp.dev = 1
  /\ Len(RegisterWrites(bus)) = 24

\* C10: every set_control_register call leaves the control flag of the
\* LED's driver true, also when the bit already had the requested value.
C10_ControlAlwaysMarked ==
  lastOp.op = "set_control_register"
    => g_led_control_registers_update_required[lastOp.dev]

C10_Witness ==
  /\ lastOp.op = "set_control_register"
  /\ lastOp.ret = "unchanged"
  /\ lastOp.val = 1
  /\ g_led_control_registers_update_required[lastOp.dev]

\* C14: the block write stops at the first failing chunk: the chunks go out
\* in order 0, 16, 32, ..., every chunk but the last one attempted succeeded,
\* the call returns failure exactly when the last chunk attempted failed, and
\* it returns success only after 12 successful chunks.
C14_BlockWriteFailsFast ==
  (lastOp.op = "flush_pwm" /\ bus # << >>)
    => LET b == BlockWrites(bus)
       IN /\ Len(b) \in 1 .. 12
          /\ \A n \in 1 .. Len(b) : b[n].data[1] = 16 * (n - 1)
          /\ \A n \in 1 .. (Len(b) - 1) : b[n].ok
          /\ lastOp.ret = "fail" <=> ~b[Len(b)].ok
          /\ lastOp.ret = "ok" <=> (Len(b) = 12 /\ b[12].ok)

\* chunk 1 is the first to fail: chunks 0 and 1 were attempted, no more
C14_Witness ==
  /\ lastOp.op = "flush_pwm"
  /\ lastOp.ret = "fail"
  /\ Len(BlockWrites(bus)) = 2
  /\ BlockWrites(bus)[1].ok
  /\ ~BlockWrites(bus)[2].ok

\* C15: flush_control of a dirty driver issues the unlock, the page select
\* and then all 24 register writes, registers 0 .. 23 in ascending order with
\* the control shadow bytes, whichever of these transmissions fail; and the
\* control flag of the driver is false after every flush_control.
C15_ControlFlushIgnoresFailures ==
  [][\A d \in Drivers :
       (lastOp'.op = "flush_control" /\ lastOp'.dev = d)
         => /\ ~g_led_control_registers_update_required'[d]
            /\ g_led_control_registers_update_required[d]
                 => /\ Len(bus') = 26
                    /\ SubSeq(bus', 3, 26) = RegisterWrites(bus')
                    /\ WholeControlPage(bus', g_led_control_registers[d])
    ]_vars

\* every transmission of a flush_control failed, a non-zero buffer was sent
C15_Witness ==
  /\ lastOp.op = "flush_control"
  /\ Len(bus) = 26
  /\ \A n \in 1 .. 26 : ~bus[n].ok
  /\ g_led_control_registers[lastOp.dev] # ZeroPage(CtrlRegs)
  /\ ~g_led_control_registers_update_required[lastOp.dev]

\* C19: a flush_pwm that runs leaves the control flag true exactly when it
\* was true before or a chunk transfer failed; when the unlock or the page
\* select fails and no chunk does, all 12 chunks are still transmitted and no
\* flag is set.
C19_ResyncOnlyOnBlockFailure ==
  [][\A d \in Drivers :
       (/\ lastOp'.op = "flush_pwm"
        /\ lastOp'.dev = d
        /\ g_pwm_buffer_update_required[d])
         => /\ g_led_control_registers_update_required'[d]
                 = (g_led_control_registers_update_required[d]
                      \/ BlockFailed(bus'))
            /\ (lastOp'.ret = "fail") = BlockFailed(bus')
            /\ ~BlockFailed(bus')
                 => /\ Len(BlockWrites(bus')) = 12
                    /\ g_led_control_registers_update_required'
                         = g_led_control_registers_update_required
                    /\ \A e \in Drivers :
                         g_pwm_buffer_update_required'[e]
                           => g_pwm_buffer_update_required[e]
    ]_vars

\* unlock and page select both failed, the 12 chunks went out, no flag set
C19_Witness ==
  /\ lastOp.op = "flush_pwm"
  /\ Len(bus) = 14
  /\ ~bus[1].ok
  /\ ~bus[2].ok
  /\ \A n \in 3 .. 14 : bus[n].ok
  /\ ~g_led_control_registers_update_required[lastOp.dev]

\* C17: set_control_register(i, enabled) leaves bit (v mod 8) of byte (v / 8)
\* of i's driver equal to enabled, and every other bit of every control
\* shadow byte of every driver as it was.
C17_OneBitChanges ==
  [][lastOp'.op = "set_control_register"
       => LET led == g_is31_leds(lastOp'.idx)
          IN \A d \in Drivers, r \in CtrlRegs :
               /\ g_led_control_registers'[d][r] \in 0 .. 255
               /\ \A n \in 0 .. 7 :
                    BitOf(g_led_control_registers'[d][r], n)
                      = IF d = led.driver /\ r = led.v \div 8
                                          /\ n = led.v % 8
                        THEN lastOp'.val
                        ELSE BitOf(g_led_control_registers[d][r], n)
    ]_vars

\* LED 1 (driver 1, offset 37) was disabled in a register holding 0xFF:
\* bit 5 of byte 4 cleared, the other seven bits still set
C17_Witness ==
  /\ lastOp.op = "set_control_register"
  /\ lastOp.idx = 1
  /\ lastOp.val = 0
  /\ g_led_control_registers[1][4] = 223
  /\ g_led_control_registers[1][5] = 255

BothFlushes == {"flush_pwm", "flush_control"}
\* the followed chip holds what the shadow buffers hold, both flags clear
InSync(d) ==
  /\ hw[d].pg0 = g_led_control_registers[d]
  /\ hw[d].pg1 = g_pwm_buffer[d]
  /\ ~g_pwm_buffer_update_required[d]
  /\ ~g_led_control_registers_update_required[d]

\* C18 as stated: once init of a driver has completed with every
\* transmission successful and no transmission has failed since, after any
\* set_value and set_control_register calls followed by a flush_pwm and a
\* flush_control of the driver, its chip's PWM and control pages equal the
\* shadow buffers and its dirty flags are false.
C18_InitThenFlushSyncs ==
  (power.ok /\ power.done = BothFlushes) => InSync(power.dev)

\* C18 amended: the same, provided that when init ran each shadow buffer of
\* the driver was still all zero or had its dirty flag set (as when init is
\* the first call made for the driver).
C18_FreshInitThenFlushSyncs ==
  (power.ok /\ power.fresh /\ power.done = BothFlushes) => InSync(power.dev)

\* after init, a brightness and an enable bit were set and both flushed
C18_Witness ==
  /\ power.ok
  /\ power.fresh
  /\ power.done = BothFlushes
  /\ g_pwm_buffer[power.dev] # ZeroPage(PwmRegs)
  /\ g_led_control_registers[power.dev] # ZeroPage(CtrlRegs)
  /\ InSync(power.dev)

(* ------------------------------- C16 ----------------------------------- *)

\* the two bytes of transmission n of the last call
Sent(n) == bus[n].data

\* C16: init issues, to the driver's address and whatever the outcome of
\* each write, 226 register writes in a fixed order: unlock, select the
\* control page, zero its 24 registers; unlock, select the PWM page, zero
\* its 192 registers; unlock, select the function page, then the two
\* pull-up registers, the global current and, as the very last write, the
\* configuration register, whose value carries the sync role and has the
\* bit that leaves software shutdown set.
C16_InitOrderConfigurationLast ==
  lastOp.op = "init" =>
    /\ Len(bus) = 226
    /\ \A n \in 1 .. Len(bus) :
         bus[n].addr = DriverAddr(lastOp.dev) /\ Len(bus[n].data) = 2
    /\ Sent(1) = << 254, 197 >>
    /\ Sent(2) = << 253, 0 >>
    /\ \A i \in 0 .. 23 : Sent(3 + i) = << i, 0 >>
    /\ Sent(27) = << 254, 197 >>
    /\ Sent(28) = << 253, 1 >>
    /\ \A i \in 0 .. 191 : Sent(29 + i) = << i, 0 >>
    /\ Sent(221) = << 254, 197 >>
    /\ Sent(222) = << 253, 3 >>
    /\ Sent(223)[1] = 15
    /\ Sent(224)[1] = 16
    /\ Sent(225) = << 1, 255 >>
    /\ Sent(226)[1] = 0
    /\ Sent(226)[2] % 2 = 1
    /\ Sent(226)[2] \div 64 = lastOp.val

\* init ran although its very first write and its last write both failed
C16_Witness ==
  /\ lastOp.op = "init"
  /\ Len(bus) = 226
  /\ ~bus[1].ok
  /\ ~bus[226].ok
  /\ Sent(226)[1] = 0

(* ------------------------------- C13 ----------------------------------- *)

\* positions in the last call of its page-select writes and of all its
\* writes of the two command registers (page select and unlock)
Selects == { n \in 1 .. Len(bus) : Sent(n)[1] = 253 }
CommandWrites == { n \in 1 .. Len(bus) : Sent(n)[1] \in {253, 254} }
\* the page the device was last told to select before transmission n of
\* the call, sel being the positions of the call's page-select writes
SelectedBefore(sel, n) ==
  IF \A m \in sel : m >= n THEN NO_PAGE
  ELSE Sent(CHOOSE m \in sel : m < n /\ \A k \in sel : k < n => k <= m)[2]
\* the page data write n of the call is meant for: the PWM page for
\* flush_pwm, the control page for flush_control; for init the first 24
\* data writes zero the control page, the next 192 the PWM page, and the
\* remaining ones set up the function page (cmd: the positions of the
\* call's command-register writes)
IntendedPage(cmd, n) ==
  IF lastOp.op = "flush_pwm" THEN 1
  ELSE IF lastOp.op = "flush_control" THEN 0
  ELSE LET k == n - Cardinality({ m \in cmd : m < n })
       IN IF k <= 24 THEN 0 ELSE IF k <= 24 + 192 THEN 1 ELSE 3

\* C13: in every init and flush call, each page-select write comes directly
\* after an unlock write (0xC5 to the write-lock register) of the same
\* call, and each data write goes out only after a page-select write of
\* the same call to the same device has named the page the data is meant
\* for, with no other page selected in between.  Every call selecting its
\* own page first, the same holds over any sequence of such calls.
C13_PageSelectedBeforeData ==
  lastOp.op \in {"init", "flush_pwm", "flush_control"} =>
    LET sel == Selects
        cmd == CommandWrites
    IN /\ \A n \in sel :
            /\ n > 1
            /\ Sent(n - 1) = << 254, 197 >>
       /\ \A n \in 1 .. Len(bus) :
            /\ bus[n].addr = DriverAddr(lastOp.dev)
            /\ n \notin cmd => SelectedBefore(sel, n) = IntendedPage(cmd, n)

\* a control flush sent its 24 registers, all after its one page select
C13_Witness ==
  /\ lastOp.op = "flush_control"
  /\ Selects = {2}
  /\ Len(bus) = 26
  /\ SelectedBefore(Selects, 3) = 0
  /\ SelectedBefore(Selects, 26) = 0

(* ------------------------------- C20 ----------------------------------- *)

\* C20: each operation leaves the other part of the shadow state alone:
\* set_value (and set_value_all) changes no control shadow byte and no
\* control dirty flag, set_control_register changes no PWM shadow byte and
\* no PWM dirty flag, flush_control changes no PWM dirty flag, and init
\* changes no shadow buffer and no dirty flag.
C20_OperationsKeepToTheirPart ==
  [][ /\ lastOp'.op \in {"set_value", "set_value_all"} =>
           UNCHANGED << g_led_control_registers,
                        g_led_control_registers_update_required >>
      /\ lastOp'.op = "set_control_register" =>
           UNCHANGED << g_pwm_buffer, g_pwm_buffer_update_required >>
      /\ lastOp'.op = "flush_control" =>
           UNCHANGED g_pwm_buffer_update_required
      /\ lastOp'.op = "init" =>
           UNCHANGED << g_pwm_buffer, g_pwm_buffer_update_required,
                        g_led_control_registers,
                        g_led_control_registers_update_required >>
    ]_vars

\* init ran, every write successful, for a driver whose two buffers held
\* unflushed changes, and they are still there and still marked
C20_Witness ==
  /\ lastOp.op = "init"
  /\ AllOk(bus)
  /\ g_pwm_buffer_update_required[lastOp.dev]
  /\ g_led_control_registers_update_required[lastOp.dev]
  /\ g_pwm_buffer[lastOp.dev] # ZeroPage(PwmRegs)
  /\ g_led_control_registers[lastOp.dev] # ZeroPage(CtrlRegs)

(* ------------------------------- C11 ----------------------------------- *)

\* what the flush just made did: its transmissions and the flags of its
\* driver afterwards
Observed ==
  [txs |-> bus,
   pwmDirty |-> g_pwm_buffer_update_required[lastOp.dev],
   ctrlDirty |-> g_led_control_registers_update_required[lastOp.dev]]
\* of the last call, only the first data transfer failed
OnlyFirstDataFailed ==
  /\ Len(bus) >= 3
  /\ \A n \in 1 .. Len(bus) : bus[n].ok <=> n # 3

\* C11: operations on one driver do not affect another.  set_value,
\* set_control_register, flush_pwm and flush_control of driver d leave the
\* shadow buffers and both dirty flags of every other driver unchanged.
\* And when a flush of driver e directly follows a flush of another driver
\* a, it sends the same transmissions and leaves the same flags of e as it
\* does when called before the flush of a, on a transport that treats it
\* the same way (every transfer succeeds, or only the first data transfer
\* fails); no flush changing a shadow buffer, both orders end with the
\* same buffers, flags and per-device transmissions.
C11_DevicesIndependent ==
  [][ /\ \A d \in Drivers :
           ( /\ lastOp'.op \in {"set_value", "set_control_register",
                                "flush_pwm", "flush_control"}
             /\ lastOp'.dev = d )
           => \A e \in Drivers \ {d} :
                /\ g_pwm_buffer'[e] = g_pwm_buffer[e]
                /\ g_led_control_registers'[e] = g_led_control_registers[e]
                /\ g_pwm_buffer_update_required'[e]
                     = g_pwm_buffer_update_required[e]
                /\ g_led_control_registers_update_required'[e]
                     = g_led_control_registers_update_required[e]
      /\ ( /\ lastOp.op \in Flushes
           /\ lastOp'.op \in Flushes
           /\ lastOp'.dev # lastOp.dev )
         => /\ lastOp'.dev \in DOMAIN would.out
            /\ UNCHANGED << g_pwm_buffer, g_led_control_registers >>
            /\ AllOk(bus') =>
                 Observed' = would.out[lastOp'.dev][lastOp'.op]["reliable"]
            /\ OnlyFirstDataFailed' =>
                 Observed' = would.out[lastOp'.dev][lastOp'.op]["first"]
    ]_vars

\* driver 1 sent its whole PWM page directly after a flush of driver 0
\* that had sent its own, both buffers holding a brightness
C11_Witness ==
  /\ lastOp.op = "flush_pwm"
  /\ lastOp.dev = 1
  /\ would.after = 0
  /\ Len(bus) = 2 + NumChunks
  /\ AllOk(bus)
  /\ ~g_pwm_buffer_update_required[0]
  /\ g_pwm_buffer[0] # ZeroPage(PwmRegs)
  /\ g_pwm_buffer[1] # ZeroPage(PwmRegs)

(* ------------------------------- C12 ----------------------------------- *)

\* driver d has a mapped location whose shadow byte differs from v
SomeMappedDiffers(d, v) ==
  \E l \in Locations : l[1] = d /\ g_pwm_buffer[d][l[2]] # v

\* C12: set_value_all(v) does what set_value(0, v), set_value(1, v), ...,
\* set_value(LED_COUNT - 1, v) do: a run of these calls ends with the
\* buffers and flags set_value_all(v) leaves when called where the run
\* started.  After set_value_all(v) every mapped PWM shadow location holds
\* v, unmapped shadow bytes are unchanged, a PWM dirty flag that was set
\* stays set, and one that was clear is set exactly when a mapped location
\* of its driver held a value different from v.
C12_SetValueAllIsTheLoop ==
  /\ [](chain.next = LED_MATRIX_LED_COUNT =>
          << g_pwm_buffer, g_pwm_buffer_update_required >> = chain.target)
  /\ [][lastOp'.op = "set_value_all" =>
          \A d \in Drivers :
            /\ \A r \in PwmRegs :
                 g_pwm_buffer'[d][r] =
                   IF << d, r >> \in Locations THEN lastOp'.val
                   ELSE g_pwm_buffer[d][r]
            /\ g_pwm_buffer_update_required'[d] =
                 (g_pwm_buffer_update_required[d]
                    \/ SomeMappedDiffers(d, lastOp'.val))
     ]_vars

\* set_value_all(128) marked driver 0 and left the flag of driver 1 clear,
\* whose only LED already had brightness 128 on the chip
C12_Witness ==
  /\ lastOp.op = "set_value_all"
  /\ lastOp.val = 128
  /\ \A l \in Locations : g_pwm_buffer[l[1]][l[2]] = 128
  /\ g_pwm_buffer_update_required[0]
  /\ ~g_pwm_buffer_update_required[1]

====
